---- MODULE Spec2Model ----
(***************************************************************************)
(* proc-maps, Linux variant (src/src/linux_maps.rs): the /proc/PID/maps    *)
(* parser parse_proc_maps, the MapRange accessors, and the containment     *)
(* queries maps_contain_addr / maps_contain_addr_range that the tests of   *)
(* linux_maps.rs call through `super::`.                                   *)
(*                                                                         *)
(* Text is modelled as a sequence of one-character strings, usize as the   *)
(* naturals below 2^UsizeBits.                                             *)
(***************************************************************************)
EXTENDS Integers, Sequences, FiniteSets, TLC

VARIABLES contents, rest, pos, vec, pc, ret, maps, query

vars == <<contents, rest, pos, vec, pc, ret, maps, query>>

(***************************************************************************)
(* Bounds of the model.                                                    *)
(***************************************************************************)
\* width of usize in bits
UsizeBits == 4
\* number of lines of a listing
MaxLines == 3
\* number of regions handed to a query
MaxRegions == 2
\* low addresses and sizes used by the queries
MaxAddr == 3

RECURSIVE Pow(_, _)
Pow(b, n) == IF n = 0 THEN 1 ELSE b * Pow(b, n - 1)

\* usize::MAX
UsizeMax == Pow(2, UsizeBits) - 1

(***************************************************************************)
(* Option<T>: None is the empty sequence, Some(x) the one-element one.     *)
(***************************************************************************)
None == <<>>
Some(x) == <<x>>

(***************************************************************************)
(* std text primitives used by parse_proc_maps.                            *)
(***************************************************************************)
\* char::is_whitespace, on the characters the model uses
IsWhitespace(c) == c \in {" ", "\t", "\r", "\n"}

\* str::split(sep) for a one-character separator: every piece, empty ones
\* included; always at least one piece
RECURSIVE SplitFrom(_, _, _, _)
SplitFrom(s, sep, i, cur) ==
  IF i > Len(s) THEN <<cur>>
  ELSE IF s[i] = sep THEN <<cur>> \o SplitFrom(s, sep, i + 1, <<>>)
  ELSE SplitFrom(s, sep, i + 1, Append(cur, s[i]))

split(s, sep) == SplitFrom(s, sep, 1, <<>>)

\* str::split_whitespace: the maximal runs of non-whitespace characters
RECURSIVE SplitWsFrom(_, _, _)
SplitWsFrom(s, i, cur) ==
  IF i > Len(s) THEN (IF cur = <<>> THEN <<>> ELSE <<cur>>)
  ELSE IF IsWhitespace(s[i])
       THEN (IF cur = <<>> THEN <<>> ELSE <<cur>>) \o SplitWsFrom(s, i + 1, <<>>)
       ELSE SplitWsFrom(s, i + 1, Append(cur, s[i]))

split_whitespace(line) == SplitWsFrom(line, 1, <<>>)

\* [&str]::join(sep)
RECURSIVE join(_, _)
join(toks, sep) ==
  IF toks = <<>> THEN <<>>
  ELSE IF Len(toks) = 1 THEN toks[1]
  ELSE toks[1] \o sep \o join(Tail(toks), sep)

\* char::to_digit(radix): the digit's value, or -1 when c is no digit
DigitChars == <<"0", "1", "2", "3", "4", "5", "6", "7", "8", "9",
                "a", "b", "c", "d", "e", "f">>
UpperDigitChars == <<"0", "1", "2", "3", "4", "5", "6", "7", "8", "9",
                     "A", "B", "C", "D", "E", "F">>

to_digit(c, radix) ==
  IF \E i \in 1..radix : DigitChars[i] = c \/ UpperDigitChars[i] = c
  THEN (CHOOSE i \in 1..radix : DigitChars[i] = c \/ UpperDigitChars[i] = c) - 1
  ELSE -1

\* Result<usize, ParseIntError>
Ok(v) == [ok |-> TRUE, val |-> v]
Err == [ok |-> FALSE, val |-> 0]

\* the digit loop of usize::from_str_radix: checked multiply, checked add
RECURSIVE FromDigits(_, _, _, _)
FromDigits(s, radix, i, acc) ==
  IF i > Len(s) THEN Ok(acc)
  ELSE LET d == to_digit(s[i], radix) IN
       IF d < 0 THEN Err
       ELSE IF acc * radix > UsizeMax THEN Err
       ELSE IF acc * radix + d > UsizeMax THEN Err
       ELSE FromDigits(s, radix, i + 1, acc * radix + d)

\* from_str_radix with the radix argument ignored: every field read as hexadecimal
from_str_radix_hex_only(src, radix) ==
  IF src = <<>> THEN Err
  ELSE IF Len(src) = 1 /\ src[1] \in {"+", "-"} THEN Err
  ELSE IF src[1] = "+" THEN FromDigits(Tail(src), 16, 1, 0)
  ELSE FromDigits(src, 16, 1, 0)

\* usize::from_str_radix(src, radix): empty input and a lone sign are errors,
\* one leading "+" is skipped, "-" is no digit of an unsigned type
from_str_radix(src, radix) ==
  IF src = <<>> THEN Err
  ELSE IF Len(src) = 1 /\ src[1] \in {"+", "-"} THEN Err
  ELSE IF src[1] = "+" THEN FromDigits(Tail(src), radix, 1, 0)
  ELSE FromDigits(src, radix, 1, 0)

(***************************************************************************)
(* MapRange and its accessors (MapRangeImpl).                              *)
(***************************************************************************)
MapRange(range_start, range_end, offset, dev, flags, inode, pathname) ==
  [range_start |-> range_start, range_end |-> range_end, offset |-> offset,
   dev |-> dev, flags |-> flags, inode |-> inode, pathname |-> pathname]

\* start() returning the other bound
start_is_end(m) == m.range_end

\* MapRange::start
start(m) == m.range_start

\* size() counting the end address in
size_inclusive(m) == (m.range_end - m.range_start + 1) % (UsizeMax + 1)

\* size() without the subtraction
size_is_end(m) == m.range_end

\* MapRange::size: range_end - range_start, a usize subtraction.  With
\* range_end < range_start it overflows: a debug build panics, a release
\* build wraps.  SizeDefined tells the two cases apart.
SizeDefined(m) == m.range_end >= m.range_start
size(m) == (m.range_end - m.range_start) % (UsizeMax + 1)

(***************************************************************************)
(* parse_proc_maps: the body of its loop, for one line.                    *)
(***************************************************************************)
\* the pathname without the filter on the empty string
Pathname_unfiltered(tokens) == Some(join(tokens, <<" ">>))

\* lines 74-78: the remaining tokens joined by " ", the empty join filtered out
Pathname(tokens) ==
  LET s == join(tokens, <<" ">>) IN
  IF s = <<>> THEN None ELSE Some(s)

Outcome(kind, rec) == [kind |-> kind, rec |-> rec]

\* the loop body ending the loop at a line it cannot parse, as at a blank one
LoopBody_lenient(line) ==
  LET toks == split_whitespace(line) IN
  IF toks = <<>> THEN Outcome("break", None)
  ELSE
    LET range_split == split(toks[1], "-") IN
    IF Len(range_split) < 2 \/ Len(toks) < 5 THEN Outcome("break", None)
    ELSE
      LET range_start == from_str_radix(range_split[1], 16)
          range_end == from_str_radix(range_split[2], 16)
          offset == from_str_radix(toks[3], 16)
          inode == from_str_radix(toks[5], 10)
      IN
      IF range_start.ok /\ range_end.ok /\ offset.ok /\ inode.ok
      THEN Outcome("push", Some(MapRange(range_start.val, range_end.val,
                                         offset.val, toks[4], toks[2], inode.val,
                                         Pathname(SubSeq(toks, 6, Len(toks))))))
      ELSE Outcome("break", None)

\* lines 62-88: "break" when the line has no token, "panic" when an unwrap
\* fails, otherwise "push" with the record to append
LoopBody(line) ==
  LET toks == split_whitespace(line) IN
  IF toks = <<>> THEN Outcome("break", None)
  ELSE
    LET range_split == split(toks[1], "-") IN
    IF Len(range_split) < 2 \/ Len(toks) < 5 THEN Outcome("panic", None)
    ELSE
      LET range_start == from_str_radix(range_split[1], 16)
          range_end == from_str_radix(range_split[2], 16)
          flags == toks[2]
          offset == from_str_radix(toks[3], 16)
          dev == toks[4]
          inode == from_str_radix(toks[5], 10)
          pathname == Pathname(SubSeq(toks, 6, Len(toks)))
      IN
      IF range_start.ok /\ range_end.ok /\ offset.ok /\ inode.ok
      THEN Outcome("push", Some(MapRange(range_start.val, range_end.val,
                                         offset.val, dev, flags, inode.val,
                                         pathname)))
      ELSE Outcome("panic", None)

(***************************************************************************)
(* The listings handed to the parser.                                      *)
(***************************************************************************)
SP == <<" ">>
Flags_rxp == <<"r", "-", "x", "p">>
Flags_rwp == <<"r", "w", "-", "p">>
Dev01 == <<"0", ":", "1">>

MkLine(range, flags, offset, dev, inode, tail) ==
  range \o SP \o flags \o SP \o offset \o SP \o dev \o SP \o inode \o tail

\* "1-3 r-xp 0 0:1 7"
L_plain == MkLine(<<"1", "-", "3">>, Flags_rxp, <<"0">>, Dev01, <<"7">>, <<>>)
\* "\ta-c rw-p 2 0:1 10  [h]  (d) ": leading tab, runs of blanks, a name of
\* two tokens, hexadecimal letters, a two-digit inode
L_deleted == <<"\t">> \o MkLine(<<"a", "-", "c">>, Flags_rwp, <<"2">>, Dev01, <<"1", "0">>,
                 <<" ", " ", "[", "h", "]", " ", " ", "(", "d", ")", " ">>)
\* "3-3 ...": start = end
L_zero == MkLine(<<"3", "-", "3">>, Flags_rxp, <<"0">>, Dev01, <<"7">>, <<>>)
\* "4-2 ...": start > end
L_inverted == MkLine(<<"4", "-", "2">>, Flags_rxp, <<"0">>, Dev01, <<"7">>, <<>>)
\* "13 ...": no dash
L_nodash == MkLine(<<"1", "3">>, Flags_rxp, <<"0">>, Dev01, <<"7">>, <<>>)
\* "g-3 ...": start is not hexadecimal
L_badstart == MkLine(<<"g", "-", "3">>, Flags_rxp, <<"0">>, Dev01, <<"7">>, <<>>)
\* "1- ...": end is empty
L_badend == MkLine(<<"1", "-">>, Flags_rxp, <<"0">>, Dev01, <<"7">>, <<>>)
\* "1-3 r-xp -2 0:1 7": offset is not hexadecimal
L_badoffset == MkLine(<<"1", "-", "3">>, Flags_rxp, <<"-", "2">>, Dev01, <<"7">>, <<>>)
\* "1-3 r-xp 0 0:1 a": inode is hexadecimal, not decimal
L_badinode == MkLine(<<"1", "-", "3">>, Flags_rxp, <<"0">>, Dev01, <<"a">>, <<>>)
\* "1-3 r-xp 0 0:1": four fields
L_fewfields == <<"1", "-", "3">> \o SP \o Flags_rxp \o SP \o <<"0">> \o SP \o Dev01
\* "": the empty line
L_empty == <<>>
\* " \t": blanks only
L_blank == <<" ", "\t">>
\* "+1-3-5 r-xp +0 0:1 +7": signed numerals, a second dash in the range field
L_plus == MkLine(<<"+", "1", "-", "3", "-", "5">>, Flags_rxp, <<"+", "0">>, Dev01,
                 <<"+", "7">>, <<>>)
\* "1-1f ...": end does not fit a 4-bit usize
L_wide == MkLine(<<"1", "-", "1", "f">>, Flags_rxp, <<"0">>, Dev01, <<"7">>, <<>>)

LinePool == {L_plain, L_deleted, L_zero, L_inverted, L_nodash, L_badstart,
             L_badend, L_badoffset, L_badinode, L_fewfields, L_empty, L_blank,
             L_plus, L_wide}

\* the lines put together with "\n" between them
RECURSIVE Unlines(_)
Unlines(ls) ==
  IF Len(ls) = 1 THEN ls[1] ELSE ls[1] \o <<"\n">> \o Unlines(Tail(ls))

Listings == {Unlines(ls) : ls \in UNION {[1..n -> LinePool] : n \in 1..MaxLines}}

(***************************************************************************)
(* parse_proc_maps as a loop over contents.split("\n").                     *)
(***************************************************************************)
NoQuery == [fn |-> "none", addr |-> 0, size |-> 0, res |-> None]

\* Split::next for contents.split("\n"), line 61: the iterator holds the text
\* not yet handed out (None once the last piece is out); next() yields the
\* text up to the first "\n" and keeps what follows it
RECURSIVE FindFrom(_, _, _)
FindFrom(s, c, i) ==
  IF i > Len(s) THEN 0 ELSE IF s[i] = c THEN i ELSE FindFrom(s, c, i + 1)

NextLine(r) ==
  LET i == FindFrom(r[1], "\n", 1) IN
  IF i = 0 THEN [line |-> r[1], rest |-> None]
  ELSE [line |-> SubSeq(r[1], 1, i - 1), rest |-> Some(SubSeq(r[1], i + 1, Len(r[1])))]

Init ==
  /\ contents \in Listings
  /\ rest = Some(contents)
  /\ pos = 0
  /\ vec = <<>>
  /\ pc = "loop"
  /\ ret = None
  /\ maps = <<>>
  /\ query = NoQuery

\* a blank line skipped (continue) where the code leaves the loop (break)
ParseSkipBlank ==
  /\ pc = "loop"
  /\ rest /= None
  /\ LoopBody(NextLine(rest).line).kind = "break"
  /\ rest' = NextLine(rest).rest
  /\ pos' = pos + 1
  /\ UNCHANGED <<contents, vec, pc, ret, maps, query>>

\* lines 63-66: the line has no token, the loop ends and vec is returned
ParseBreak ==
  /\ pc = "loop"
  /\ rest /= None
  /\ LoopBody(NextLine(rest).line).kind = "break"
  /\ rest' = NextLine(rest).rest
  /\ pos' = pos + 1
  /\ pc' = "returned"
  /\ ret' = Some(vec)
  /\ UNCHANGED <<contents, vec, maps, query>>

\* lines 67-88: the record of the line is pushed
ParsePush ==
  /\ pc = "loop"
  /\ rest /= None
  /\ LET out == LoopBody(NextLine(rest).line) IN
       /\ out.kind = "push"
       /\ vec' = Append(vec, out.rec[1])
  /\ rest' = NextLine(rest).rest
  /\ pos' = pos + 1
  /\ UNCHANGED <<contents, pc, ret, maps, query>>

\* lines 68-86: an unwrap fails; the panic unwinds, vec is dropped and the
\* caller receives no value
ParsePanic ==
  /\ pc = "loop"
  /\ rest /= None
  /\ LoopBody(NextLine(rest).line).kind = "panic"
  /\ rest' = NextLine(rest).rest
  /\ pos' = pos + 1
  /\ pc' = "panicked"
  /\ vec' = <<>>
  /\ ret' = None
  /\ UNCHANGED <<contents, maps, query>>

\* line 90: the lines are exhausted, vec is returned
ParseReturn ==
  /\ pc = "loop"
  /\ rest = None
  /\ pc' = "returned"
  /\ ret' = Some(vec)
  /\ UNCHANGED <<contents, rest, pos, vec, maps, query>>

Next == ParseBreak \/ ParsePush \/ ParsePanic \/ ParseReturn

Spec == Init /\ [][Next]_vars

(***************************************************************************)
(* The containment queries the tests call as super::maps_contain_addr and  *)
(* super::maps_contain_addr_range.  They read a region through the         *)
(* MapRangeImpl accessors start() and size() only.                         *)
(***************************************************************************)
\* one region holds addr: start <= addr < start + size
map_contain_addr(m, addr) == addr >= start(m) /\ addr < start(m) + size(m)

maps_contain_addr(addr, ms) ==
  \E i \in 1..Len(ms) : map_contain_addr(ms[i], addr)

\* usize::checked_add
checked_add(a, b) == IF a + b > UsizeMax THEN None ELSE Some(a + b)

\* the first region of ms that holds addr (Iterator::find)
find(addr, ms) ==
  IF maps_contain_addr(addr, ms)
  THEN Some(ms[CHOOSE i \in 1..Len(ms) :
                 /\ map_contain_addr(ms[i], addr)
                 /\ \A j \in 1..(i - 1) : ~map_contain_addr(ms[j], addr)])
  ELSE None

\* the walk over the regions: the range is followed from the region that
\* holds addr to the one that starts where it ends, until the range is used up
RECURSIVE RangeWalk(_, _, _)
RangeWalk(addr, sz, ms) ==
  LET found == find(addr, ms) IN
  IF found = None THEN FALSE
  ELSE LET end == start(found[1]) + size(found[1]) IN
       IF addr + sz <= end THEN TRUE
       ELSE RangeWalk(end, sz - (end - addr), ms)

\* the same walk without the two guards, the sum taken modulo 2^UsizeBits
RECURSIVE RangeWalkWrapping(_, _, _)
RangeWalkWrapping(addr, sz, ms) ==
  LET found == find(addr, ms) IN
  IF found = None THEN FALSE
  ELSE LET end == start(found[1]) + size(found[1]) IN
       IF (addr + sz) % (UsizeMax + 1) <= end THEN TRUE
       ELSE RangeWalkWrapping(end, sz - (end - addr), ms)

\* maps_contain_addr_range with the overflow guard left out
maps_contain_addr_range_unguarded(addr, sz, ms) ==
  IF sz = 0 THEN FALSE ELSE RangeWalkWrapping(addr, sz, ms)

\* maps_contain_addr_range with the empty-range guard left out
maps_contain_addr_range_empty_ok(addr, sz, ms) ==
  IF checked_add(addr, sz) = None THEN FALSE ELSE RangeWalk(addr, sz, ms)

maps_contain_addr_range(addr, sz, ms) ==
  IF sz = 0 \/ checked_add(addr, sz) = None THEN FALSE
  ELSE RangeWalk(addr, sz, ms)

\* test_contains_addr_range, lines 145-210, with 0x100000 scaled to 2 and
\* the odd sizes 0x100001, 0x200001 to 3, 5
TestRegion(s, e) == MapRange(s, e, 0, Dev01, Flags_rxp, 0, None)
TestVec == <<TestRegion(2, 4), TestRegion(6, 8), TestRegion(8, 10)>>
test_contains_addr_range ==
  /\ maps_contain_addr_range(2, 1, TestVec) = TRUE
  /\ maps_contain_addr_range(2, 2, TestVec) = TRUE
  /\ maps_contain_addr_range(4 - 1, 1, TestVec) = TRUE
  /\ maps_contain_addr_range(6, 3, TestVec) = TRUE
  /\ maps_contain_addr_range(6, 4, TestVec) = TRUE
  /\ maps_contain_addr_range(2, 3, TestVec) = FALSE
  /\ maps_contain_addr_range(2, UsizeMax, TestVec) = FALSE
  /\ maps_contain_addr_range(2, 0, TestVec) = FALSE
  /\ maps_contain_addr_range(2, 4, TestVec) = FALSE
  /\ maps_contain_addr_range(2, 5, TestVec) = FALSE

(***************************************************************************)
(* The queries as operations on a vector of regions.                       *)
(***************************************************************************)
AddrPool == 0..MaxAddr \cup {UsizeMax - 1, UsizeMax}
SizePool == 0..MaxAddr \cup {UsizeMax}

\* the regions size() is defined on
Regions ==
  {m \in {TestRegion(s, e) : s \in AddrPool, e \in AddrPool} : SizeDefined(m)}

InitQuery ==
  /\ maps \in UNION {[1..n -> Regions] : n \in 0..MaxRegions}
  /\ query = NoQuery
  /\ contents = <<>>
  /\ rest = None
  /\ pos = 0
  /\ vec = <<>>
  /\ pc = "idle"
  /\ ret = None

\* one call of a query on the vector, its result kept in query
CallContainAddr(addr) ==
  /\ pc = "idle"
  /\ query' = [fn |-> "maps_contain_addr", addr |-> addr, size |-> 0,
               res |-> Some(maps_contain_addr(addr, maps))]
  /\ pc' = "called"
  /\ UNCHANGED <<contents, rest, pos, vec, ret, maps>>

CallContainAddrRange(addr, sz) ==
  /\ pc = "idle"
  /\ query' = [fn |-> "maps_contain_addr_range", addr |-> addr, size |-> sz,
               res |-> Some(maps_contain_addr_range(addr, sz, maps))]
  /\ pc' = "called"
  /\ UNCHANGED <<contents, rest, pos, vec, ret, maps>>

NextQuery ==
  \/ \E addr \in AddrPool : CallContainAddr(addr)
  \/ \E addr \in AddrPool, sz \in SizePool : CallContainAddrRange(addr, sz)

SpecQuery == InitQuery /\ [][NextQuery]_vars

(***************************************************************************)
(* Properties of the queries, checked under SpecQuery.                     *)
(***************************************************************************)
RangeQuery == query.fn = "maps_contain_addr_range"
InRegion(a, i) == maps[i].range_start <= a /\ a < maps[i].range_end

\* C1: maps_contain_addr(addr, regions) is true exactly when some region has
\* start <= addr < end; an address equal to a region's end is not in it.
C1_AddrContainedIffInHalfOpenRegion ==
  query.fn = "maps_contain_addr" =>
    (query.res = Some(TRUE) <=> \E i \in 1..Len(maps) : InRegion(query.addr, i))

C1_Witness ==
  /\ query.fn = "maps_contain_addr"
  /\ Len(maps) = 1
  /\ maps[1].range_start < maps[1].range_end
  /\ query.addr = maps[1].range_end
  /\ query.res = Some(FALSE)

\* C2 as stated: maps_contain_addr_range is true exactly when size > 0 and a
\* single region has start <= addr and addr + size <= end.
C2_RangeContainedIffInSingleRegion ==
  RangeQuery =>
    (query.res = Some(TRUE) <=>
       /\ query.size > 0
       /\ \E i \in 1..Len(maps) :
            maps[i].range_start <= query.addr /\ query.addr + query.size <= maps[i].range_end)

\* C2 amended: maps_contain_addr_range is true exactly when size > 0 and the
\* range lies in one region or in a run of regions, the first holding addr,
\* each next one starting at or before the end of the one before and ending
\* after it, the last one ending at or after addr + size.
C2_RangeContainedIffInRunOfRegions ==
  RangeQuery =>
    (query.res = Some(TRUE) <=>
       /\ query.size > 0
       /\ \E n \in 1..Len(maps) : \E run \in [1..n -> 1..Len(maps)] :
            /\ InRegion(query.addr, run[1])
            /\ \A j \in 1..(n - 1) :
                 /\ maps[run[j + 1]].range_start <= maps[run[j]].range_end
                 /\ maps[run[j]].range_end < maps[run[j + 1]].range_end
            /\ query.addr + query.size <= maps[run[n]].range_end)

\* a range that covers two adjacent regions from the first start to the last end
C2_Witness ==
  /\ RangeQuery
  /\ Len(maps) = 2
  /\ maps[1].range_start < maps[1].range_end
  /\ maps[1].range_end = maps[2].range_start
  /\ maps[2].range_start < maps[2].range_end
  /\ query.addr = maps[1].range_start
  /\ query.addr + query.size = maps[2].range_end
  /\ query.res = Some(TRUE)

\* C3: for size > 0 and addr + size not overflowing, maps_contain_addr_range
\* is true exactly when every address of [addr, addr + size) lies in some
\* region: crossing into a region that starts at the other's end is contained,
\* crossing an unmapped gap is not.
C3_RangeContainedIffEveryAddressMapped ==
  (RangeQuery /\ query.size > 0 /\ query.addr + query.size <= UsizeMax) =>
    (query.res = Some(TRUE) <=>
       \A a \in query.addr..(query.addr + query.size - 1) :
         \E i \in 1..Len(maps) : InRegion(a, i))

\* a range whose first and last address are mapped, with a gap between
C3_Witness ==
  /\ RangeQuery
  /\ Len(maps) = 2
  /\ InRegion(query.addr, 1)
  /\ maps[1].range_end < maps[2].range_start
  /\ query.size > 0
  /\ InRegion(query.addr + query.size - 1, 2)
  /\ query.res = Some(FALSE)

\* C4: when addr + size exceeds usize::MAX, maps_contain_addr_range returns
\* false, also for an addr that lies in a region.
C4_OverflowingRangeNotContained ==
  (RangeQuery /\ query.addr + query.size > UsizeMax) => query.res = Some(FALSE)

C4_Witness ==
  /\ RangeQuery
  /\ query.addr + query.size > UsizeMax
  /\ \E i \in 1..Len(maps) : InRegion(query.addr, i)
  /\ query.res = Some(FALSE)

\* C5: maps_contain_addr_range(addr, 0, regions) is false, also for an addr
\* inside or at the start of a region.
C5_EmptyRangeNotContained ==
  (RangeQuery /\ query.size = 0) => query.res = Some(FALSE)

C5_Witness ==
  /\ RangeQuery
  /\ query.size = 0
  /\ \E i \in 1..Len(maps) : InRegion(query.addr, i) /\ query.addr = maps[i].range_start
  /\ query.res = Some(FALSE)

(***************************************************************************)
(* The grammar of a listing, stated on the text itself (positions of the   *)
(* separators), for the properties below.                                  *)
(***************************************************************************)
Blanks == {" ", "\t", "\r"}
HexDigitSet == {"0", "1", "2", "3", "4", "5", "6", "7", "8", "9",
                "a", "b", "c", "d", "e", "f", "A", "B", "C", "D", "E", "F"}
DecDigitSet == {"0", "1", "2", "3", "4", "5", "6", "7", "8", "9"}

DigitValue(c) ==
  CASE c = "0" -> 0 [] c = "1" -> 1 [] c = "2" -> 2 [] c = "3" -> 3
    [] c = "4" -> 4 [] c = "5" -> 5 [] c = "6" -> 6 [] c = "7" -> 7
    [] c = "8" -> 8 [] c = "9" -> 9
    [] c \in {"a", "A"} -> 10 [] c \in {"b", "B"} -> 11
    [] c \in {"c", "C"} -> 12 [] c \in {"d", "D"} -> 13
    [] c \in {"e", "E"} -> 14 [] c \in {"f", "F"} -> 15

\* the k-th smallest element of a finite set of integers
NthSmallest(S, k) == CHOOSE x \in S : Cardinality({y \in S : y < x}) = k - 1

\* the pieces of s between the occurrences of sep
SepPos(s, sep) == {i \in 1..Len(s) : s[i] = sep}
PieceCount(s, sep) == Cardinality(SepPos(s, sep)) + 1
PieceAt(s, P, k) ==
  SubSeq(s,
         (IF k = 1 THEN 0 ELSE NthSmallest(P, k - 1)) + 1,
         (IF k > Cardinality(P) THEN Len(s) + 1 ELSE NthSmallest(P, k)) - 1)
Piece(s, sep, k) == PieceAt(s, SepPos(s, sep), k)
RECURSIVE PiecesFrom(_, _, _)
PiecesFrom(s, P, k) ==
  IF k > Cardinality(P) + 1 THEN <<>>
  ELSE <<PieceAt(s, P, k)>> \o PiecesFrom(s, P, k + 1)
Pieces(s, P) == PiecesFrom(s, P, 1)

\* the whitespace-separated fields of a line, in order
FieldStarts(l) == {i \in 1..Len(l) : l[i] \notin Blanks /\ (i = 1 \/ l[i - 1] \in Blanks)}
FieldEnds(l) == {i \in 1..Len(l) : l[i] \notin Blanks /\ (i = Len(l) \/ l[i + 1] \in Blanks)}
RECURSIVE FieldsBetween(_, _, _, _)
FieldsBetween(l, st, en, k) ==
  IF k > Cardinality(st) THEN <<>>
  ELSE <<SubSeq(l, NthSmallest(st, k), NthSmallest(en, k))>>
         \o FieldsBetween(l, st, en, k + 1)
Fields(l) == FieldsBetween(l, FieldStarts(l), FieldEnds(l), 1)

\* a numeral in the given digits: digits only, after an optional "+" sign
Digits(tok) == IF tok /= <<>> /\ tok[1] = "+" THEN Tail(tok) ELSE tok
IsNumeral(tok, digitSet) ==
  /\ Digits(tok) /= <<>>
  /\ \A i \in 1..Len(Digits(tok)) : Digits(tok)[i] \in digitSet

\* the value of a numeral, most significant digit first
RECURSIVE SumDigits(_, _, _)
SumDigits(ds, radix, n) ==
  IF n = 0 THEN 0
  ELSE DigitValue(ds[n]) * Pow(radix, Len(ds) - n) + SumDigits(ds, radix, n - 1)
NumeralValue(tok, radix) == SumDigits(Digits(tok), radix, Len(Digits(tok)))

IsBlankLine(l) == \A i \in 1..Len(l) : l[i] \in Blanks

\* the ways a line with fields f (at least one) breaks the grammar
NoDash(f) == PieceCount(f[1], "-") < 2
BadStart(f) == ~IsNumeral(Piece(f[1], "-", 1), HexDigitSet)
BadEnd(f) == ~NoDash(f) /\ ~IsNumeral(Piece(f[1], "-", 2), HexDigitSet)
BadOffset(f) == Len(f) >= 3 /\ ~IsNumeral(f[3], HexDigitSet)
BadInode(f) == Len(f) >= 5 /\ ~IsNumeral(f[5], DecDigitSet)

MalformedFields(f) ==
  /\ f /= <<>>
  /\ \/ Len(f) < 5
     \/ NoDash(f) \/ BadStart(f) \/ BadEnd(f) \/ BadOffset(f) \/ BadInode(f)

\* the numeric and verbatim fields a line of the grammar stands for
Numbers(f) ==
  [range_start |-> NumeralValue(Piece(f[1], "-", 1), 16),
   range_end |-> NumeralValue(Piece(f[1], "-", 2), 16),
   offset |-> NumeralValue(f[3], 16),
   dev |-> f[4],
   flags |-> f[2],
   inode |-> NumeralValue(f[5], 10)]

\* the numbers fit usize
NumbersFit(nums) ==
  /\ nums.range_start <= UsizeMax
  /\ nums.range_end <= UsizeMax
  /\ nums.offset <= UsizeMax
  /\ nums.inode <= UsizeMax

\* a line of the grammar whose numbers fit usize
WellFormedFields(f) ==
  /\ f /= <<>>
  /\ ~MalformedFields(f)
  /\ NumbersFit(Numbers(f))

\* the fields from the k-th on, with one space between them
RECURSIVE NameFrom(_, _)
NameFrom(f, k) ==
  IF k = Len(f) THEN f[k] ELSE f[k] \o <<" ">> \o NameFrom(f, k + 1)

\* what the grammar says of one line
ReadingOf(l, f, wf) ==
  [blank |-> IsBlankLine(l),
   malformed |-> MalformedFields(f),
   wellformed |-> wf,
   nfields |-> Len(f),
   numbers |-> IF wf THEN Some(Numbers(f)) ELSE None,
   name |-> IF wf /\ Len(f) > 5 THEN Some(NameFrom(f, 6)) ELSE None]
ReadingOfFields(l, f) == ReadingOf(l, f, WellFormedFields(f))
Reading(l) == ReadingOfFields(l, Fields(l))

\* what the grammar says of the listing in contents, line by line
RECURSIVE ReadingsOf(_)
ReadingsOf(ls) ==
  IF ls = <<>> THEN <<>> ELSE <<Reading(Head(ls))>> \o ReadingsOf(Tail(ls))
Listing == ReadingsOf(Pieces(contents, SepPos(contents, "\n")))

\* the first blank line of a listing, its length plus one when there is none
FirstBlank(L) ==
  IF \E k \in 1..Len(L) : L[k].blank
  THEN CHOOSE k \in 1..Len(L) : L[k].blank /\ \A j \in 1..(k - 1) : ~L[j].blank
  ELSE Len(L) + 1

Projection(m) ==
  [range_start |-> m.range_start, range_end |-> m.range_end, offset |-> m.offset,
   dev |-> m.dev, flags |-> m.flags, inode |-> m.inode]

(***************************************************************************)
(* Properties of parse_proc_maps, checked under Spec.                      *)
(***************************************************************************)
OneRecordPerLine(L, n) ==
  (\A k \in 1..n : L[k].wellformed) =>
    /\ pc /= "panicked"
    /\ Len(vec) = (IF pos < n THEN pos ELSE n)
    /\ \A k \in 1..Len(vec) : Some(Projection(vec[k])) = L[k].numbers
    /\ pc = "returned" => ret = Some(vec) /\ Len(vec) = n
WithoutLastBlank(L) == IF L[Len(L)].blank THEN Len(L) - 1 ELSE Len(L)
OneRecordPerLineIn(L) == OneRecordPerLine(L, WithoutLastBlank(L))

\* C6: a listing of well-formed lines (a blank line only as its last line)
\* yields one record per line, in the order of the lines, with start, end and
\* offset the hexadecimal values, inode the decimal value, dev and flags
\* verbatim; while the loop runs, vec holds the records of the lines read.
C6_OneRecordPerLineInOrder == OneRecordPerLineIn(Listing)

C6_Witness ==
  LET L == Listing IN
  /\ pc = "returned"
  /\ Len(L) = MaxLines
  /\ \A k \in 1..Len(L) : L[k].wellformed
  /\ Len(ret[1]) = MaxLines
  /\ ret[1][1].range_start > ret[1][2].range_start
  /\ \E k \in 1..MaxLines : ret[1][k].inode = 10

\* C7: every record the parser produces has start < end, so that size() is
\* at least 1 and its subtraction never underflows.
C7_StartBelowEnd ==
  \A k \in 1..Len(vec) : vec[k].range_start < vec[k].range_end

MalformedLineFails(L, b) ==
  \A k \in 1..Len(L) :
    (L[k].malformed /\ k < b) =>
      /\ pc /= "returned"
      /\ ret = None
      /\ pos >= k => (pc = "panicked" /\ vec = <<>>)
MalformedLineFailsIn(L) == MalformedLineFails(L, FirstBlank(L))

\* C8: when a line the parser reaches is malformed (no dash in the range, a
\* start, end or offset that is no hexadecimal numeral, an inode that is no
\* decimal numeral, fewer than five fields), the call never returns a list:
\* once that line is read the call has panicked and the caller holds nothing.
C8_MalformedLineFailsWholeParse == MalformedLineFailsIn(Listing)

C8_Witness ==
  LET L == Listing IN
  /\ pc = "panicked"
  /\ pos = MaxLines
  /\ Len(L) = MaxLines
  /\ \A k \in 1..(MaxLines - 1) : L[k].wellformed
  /\ L[MaxLines].malformed
  /\ ret = None

StopsAtBlank(L, b) ==
  (b <= Len(L) /\ \A k \in 1..(b - 1) : L[k].wellformed) =>
    /\ pc /= "panicked"
    /\ pos <= b
    /\ pos = b => pc = "returned"
    /\ pc = "returned" =>
         /\ pos = b
         /\ ret = Some(vec)
         /\ Len(vec) = b - 1
         /\ \A k \in 1..(b - 1) : Some(Projection(vec[k])) = L[k].numbers
StopsAtBlankIn(L) == StopsAtBlank(L, FirstBlank(L))

\* C9: parsing stops at the first blank line it reaches: the call returns the
\* records of the lines before it and reads no line after it, whatever the
\* later lines hold.
C9_StopsAtFirstBlankLine == StopsAtBlankIn(Listing)

C9_Witness ==
  LET L == Listing IN
  /\ pc = "returned"
  /\ FirstBlank(L) = 2
  /\ Len(L) = 3
  /\ L[3].malformed
  /\ Len(ret[1]) = 1

PathnameIsTail(L) ==
  \A k \in 1..Len(vec) :
    L[k].wellformed =>
      /\ vec[k].pathname = None <=> L[k].nfields = 5
      /\ L[k].nfields > 5 => vec[k].pathname = L[k].name
      /\ vec[k].pathname /= Some(<<>>)

\* C10: the record of a well-formed line has no pathname exactly when the line
\* has five fields, and otherwise the fields after the fifth joined by single
\* spaces; the pathname is never the empty string.
C10_PathnameIsJoinedTail == PathnameIsTail(Listing)

C10_Witness ==
  /\ Len(vec) >= 2
  /\ vec[1].pathname = Some(<<"[", "h", "]", " ", "(", "d", ")">>)
  /\ vec[1].flags = Flags_rwp
  /\ vec[2].pathname = None

====
